---- MODULE Spec2Model ----
(***************************************************************************)
(* Model of ashaw_notes/connectors/redis_notes.py: the Redis note          *)
(* connector.  The Redis database is one key space; a key holds either a   *)
(* string (a note value) or a set of members (a postings list).  Keys,     *)
(* members, note texts and search terms are strings, so that key           *)
(* formatting, prefix stripping and integer parsing are computed as the    *)
(* code computes them.                                                     *)
(***************************************************************************)
EXTENDS Integers, Sequences, FiniteSets, TLC

VARIABLES db, op, tok, calls, start, scenario

vars == <<db, op, tok, calls, start, scenario>>

(***************************************************************************)
(* Bounds of the model.                                                    *)
(***************************************************************************)
NumTimestamps == 2
NumTexts == 2
MaxInclusion == 2
MaxExclusion == 1
\* the arguments get_note_tokens is called with on its own
NumTokenizerTimestamps == 9
NumTokenizerTexts == 7

Min(a, b) == IF a < b THEN a ELSE b

\* 1500000000 = 2017-07-14 02:40:00 UTC (Friday); 951782400 = 2000-02-29
\* 00:00:00 UTC (Tuesday).  The pool is not in ascending order, and the
\* decimal spellings order differently from the integers.
TimestampPool == <<200, 1500000000, 100, 951782400>>

TextPool == <<"a", "A #a", "a a", "", "b-a ##B">>

Timestamps == {TimestampPool[i] : i \in 1..Min(NumTimestamps, Len(TimestampPool))}
Texts == {TextPool[i] : i \in 1..Min(NumTexts, Len(TextPool))}

\* 0 = 1970-01-01 00:00:00 UTC (Thursday); 86399 and 86400 are the last
\* second of that day and the first of the next; 68169600 = 1972-02-29;
\* 951868800 = 2000-03-01; 1483228799 = 2016-12-31 23:59:59 (Saturday);
\* 978307200 = 2001-01-01 (Monday); 1709251199 = 2024-02-29 23:59:59;
\* 2147483647 = 2038-01-19 03:14:07 (Tuesday)
TokenizerTimestampPool ==
    <<0, 86399, 86400, 68169600, 951782400, 951868800, 1483228799, 1500000000,
      978307200, 2147483647, 1709251199>>

\* texts with a word repeated, a word and a tag of the same letters, a word
\* that spells a temporal token, tags that differ in case only
TokenizerTextPool ==
    <<"", "a", "a a", "A #a", "year_2017 a #a A", "b-a ##B", "a B a b #b #B",
      "#x-y x_y #X-Y", "weekday_4 hour_2">>

TokenizerTimestamps ==
    {TokenizerTimestampPool[i] : i \in 1..Min(NumTokenizerTimestamps, Len(TokenizerTimestampPool))}
TokenizerTexts ==
    {TokenizerTextPool[i] : i \in 1..Min(NumTokenizerTexts, Len(TokenizerTextPool))}

\* the search terms of the model: a word and a tag, the tag not yet lower-cased
Terms == {"a", "#A"}

(***************************************************************************)
(* Characters and strings.                                                 *)
(***************************************************************************)
LowerLetters == <<"a","b","c","d","e","f","g","h","i","j","k","l","m",
                  "n","o","p","q","r","s","t","u","v","w","x","y","z">>
UpperLetters == <<"A","B","C","D","E","F","G","H","I","J","K","L","M",
                  "N","O","P","Q","R","S","T","U","V","W","X","Y","Z">>
Digits == <<"0","1","2","3","4","5","6","7","8","9">>

Range(s) == {s[i] : i \in 1..Len(s)}

IndexOf(s, c) == CHOOSE i \in 1..Len(s) : s[i] = c

\* the character of s at position i, from 1
CharAt(s, i) == SubSeq(s, i, i)

\* str.lower() on one character
LowerOf == [c \in Range(UpperLetters) |-> LowerLetters[IndexOf(UpperLetters, c)]]

LowerChar(c) == IF c \in DOMAIN LowerOf THEN LowerOf[c] ELSE c

\* str.lower()
RECURSIVE Lower(_)
Lower(s) == IF s = "" THEN "" ELSE LowerChar(CharAt(s, 1)) \o Lower(SubSeq(s, 2, Len(s)))

\* the class \w of the pattern (\w+)
WordChars == Range(LowerLetters) \cup Range(UpperLetters) \cup Range(Digits) \cup {"_"}

IsWordChar(c) == c \in WordChars

\* the class [A-z0-9-_] of the pattern (#[A-z0-9-_]+): the range A-z also
\* covers the characters between Z and a (of which the backslash and the
\* backquote occur in no text of the model)
TagChars ==
    Range(LowerLetters) \cup Range(UpperLetters) \cup Range(Digits) \cup {"[", "]", "^", "_", "-"}

IsTagChar(c) == c \in TagChars

DigitValue == [c \in Range(Digits) |-> IndexOf(Digits, c) - 1]

\* "%s" % n for a non-negative integer n
RECURSIVE IntToStr(_)
IntToStr(n) == IF n < 10 THEN Digits[n + 1]
               ELSE IntToStr(n \div 10) \o Digits[(n % 10) + 1]

\* int(s) for a string of decimal digits
RECURSIVE StrToInt(_)
StrToInt(s) == IF Len(s) = 1 THEN DigitValue[s]
               ELSE 10 * StrToInt(SubSeq(s, 1, Len(s) - 1)) + DigitValue[CharAt(s, Len(s))]

StartsWith(s, p) == Len(s) >= Len(p) /\ SubSeq(s, 1, Len(p)) = p

(***************************************************************************)
(* Key names.                                                              *)
(***************************************************************************)
\* "note_%s" % timestamp, for timestamp as "%s" spells it: the decimal digits
\* of an integer, and '' and "*" themselves
get_note_key(timestamp) == "note_" \o timestamp

\* "w_%s" % word.lower()
get_word_key(word) == "w_" \o Lower(word)

(***************************************************************************)
(* time.gmtime: the UTC calendar fields of a non-negative timestamp.       *)
(***************************************************************************)
\* the proleptic Gregorian date of day number days counted from 1970-01-01,
\* by eras of 400 years (146097 days) that start on a 1st of March
CivilFromDays(days) ==
    LET z == days + 719468
        era == z \div 146097
        doe == z - era * 146097
        yoe == (doe - doe \div 1460 + doe \div 36524 - doe \div 146096) \div 365
        doy == doe - (365 * yoe + yoe \div 4 - yoe \div 100)
        mp == (5 * doy + 2) \div 153
        d == doy - (153 * mp + 2) \div 5 + 1
        m == IF mp < 10 THEN mp + 3 ELSE mp - 9
        y == yoe + era * 400 + (IF m <= 2 THEN 1 ELSE 0)
    IN [year |-> y, month |-> m, day |-> d]

\* gmtime with the weekday counted from Sunday, as C's struct tm counts it
gmtime_SundayFirst(timestamp) ==
    LET days == timestamp \div 86400
        date == CivilFromDays(days)
    IN [tm_year |-> date.year, tm_mon |-> date.month, tm_mday |-> date.day,
        tm_hour |-> (timestamp % 86400) \div 3600,
        tm_wday |-> (days + 4) % 7]

gmtime(timestamp) ==
    LET days == timestamp \div 86400
        date == CivilFromDays(days)
    IN [tm_year |-> date.year, tm_mon |-> date.month, tm_mday |-> date.day,
        tm_hour |-> (timestamp % 86400) \div 3600,
        tm_wday |-> (days + 3) % 7]

(***************************************************************************)
(* The tokenizer.                                                          *)
(***************************************************************************)
\* the end of the maximal run of word characters that starts at i
RECURSIVE WordEnd(_, _)
WordEnd(line, i) ==
    IF i < Len(line) /\ IsWordChar(CharAt(line, i + 1)) THEN WordEnd(line, i + 1) ELSE i

\* re.findall(r'(\w+)', line) from position i on
RECURSIVE FindWords(_, _)
FindWords(line, i) ==
    IF i > Len(line) THEN <<>>
    ELSE IF IsWordChar(CharAt(line, i))
         THEN LET e == WordEnd(line, i)
              IN <<SubSeq(line, i, e)>> \o FindWords(line, e + 1)
         ELSE FindWords(line, i + 1)

\* the end of the maximal run of tag characters that starts at i
RECURSIVE TagEnd(_, _)
TagEnd(line, i) ==
    IF i < Len(line) /\ IsTagChar(CharAt(line, i + 1)) THEN TagEnd(line, i + 1) ELSE i

\* re.findall(r'(#[A-z0-9-_]+)', line) from position i on
RECURSIVE FindTags(_, _)
FindTags(line, i) ==
    IF i > Len(line) THEN <<>>
    ELSE IF CharAt(line, i) = "#" /\ i < Len(line) /\ IsTagChar(CharAt(line, i + 1))
         THEN LET e == TagEnd(line, i + 1)
              IN <<SubSeq(line, i, e)>> \o FindTags(line, e + 1)
         ELSE FindTags(line, i + 1)

\* the two loops without their test "if token not in tokens"
RECURSIVE AppendKeys_NoCheck(_, _, _)
AppendKeys_NoCheck(tokens, parts, i) ==
    IF i > Len(parts) THEN tokens
    ELSE AppendKeys_NoCheck(Append(tokens, get_word_key(Lower(parts[i]))), parts, i + 1)

\* the two loops "if token not in tokens: tokens.append(token)"
RECURSIVE AppendKeys(_, _, _)
AppendKeys(tokens, parts, i) ==
    IF i > Len(parts) THEN tokens
    ELSE LET token == get_word_key(Lower(parts[i]))
         IN AppendKeys(IF token \in Range(tokens) THEN tokens ELSE Append(tokens, token),
                       parts, i + 1)

\* lines 117-122: the five temporal tokens
TemporalTokens(timestamp) ==
    LET note_time == gmtime(timestamp)
    IN << "year_" \o IntToStr(note_time.tm_year),
          "month_" \o IntToStr(note_time.tm_mon),
          "day_" \o IntToStr(note_time.tm_mday),
          "hour_" \o IntToStr(note_time.tm_hour),
          "weekday_" \o IntToStr(note_time.tm_wday) >>

\* lines 104-115: the word tokens, then the tag tokens not yet in the list
TextTokens(line) ==
    LET words == AppendKeys(<<>>, FindWords(line, 1), 1)
    IN AppendKeys(words, FindTags(line, 1), 1)

get_note_tokens(timestamp, line) == TextTokens(line) \o TemporalTokens(timestamp)

\* get_note_tokens and "%s" % timestamp on the arguments the model calls
\* them with, evaluated once
NoteTokens == [timestamp \in Timestamps, line \in Texts |-> get_note_tokens(timestamp, line)]

TimestampStr == [timestamp \in Timestamps |-> IntToStr(timestamp)]

(***************************************************************************)
(* The Redis commands the connector uses, on a database d: a function      *)
(* from the keys that exist to their values.                               *)
(***************************************************************************)
StringValue(s) == [kind |-> "string", str |-> s, set |-> {}]
SetValue(S) == [kind |-> "set", str |-> "", set |-> S]

RemoveKey(d, key) == [k \in DOMAIN d \ {key} |-> d[k]]

PutKey(d, key, value) == (key :> value) @@ d

\* SMEMBERS: a key that does not exist is the empty set
smembers(d, key) == IF key \in DOMAIN d /\ d[key].kind = "set" THEN d[key].set ELSE {}

\* SADD key member that adds nothing
sadd_Dropped(d, key, member) == d

\* SADD key member that replaces the set by the member, as SET would
sadd_Overwrite(d, key, member) == PutKey(d, key, SetValue({member}))

\* SADD key member
sadd(d, key, member) == PutKey(d, key, SetValue(smembers(d, key) \cup {member}))

\* DEL key in the place of SREM key member
srem_AsDelete(d, key, member) == IF key \notin DOMAIN d THEN d ELSE RemoveKey(d, key)

\* SREM key member: a set that becomes empty is removed with its key
srem(d, key, member) ==
    IF key \notin DOMAIN d THEN d
    ELSE IF smembers(d, key) \ {member} = {} THEN RemoveKey(d, key)
         ELSE PutKey(d, key, SetValue(smembers(d, key) \ {member}))

\* SET key value
set(d, key, value) == PutKey(d, key, StringValue(value))

\* DEL key
delete(d, key) == RemoveKey(d, key)

\* EXISTS key
exists(d, key) == key \in DOMAIN d

None == [kind |-> "none", str |-> "", set |-> {}]

\* GET key: None for a key that does not exist
get(d, key) == IF key \in DOMAIN d THEN d[key] ELSE None

\* MGET keys: aligned with keys, None for a key that does not exist
mget(d, keys) == [i \in 1..Len(keys) |-> get(d, keys[i])]

\* KEYS prefix*
keys(d, prefix) == {k \in DOMAIN d : StartsWith(k, prefix)}

\* SUNION in the place of SINTER
sinter_AsUnion(d, ks) == UNION {smembers(d, k) : k \in ks}

\* SINTER keys, for a non-empty set of keys
sinter(d, ks) == {m \in UNION {smembers(d, k) : k \in ks} : \A k \in ks : m \in smembers(d, k)}

\* SUNION keys
sunion(d, ks) == UNION {smembers(d, k) : k \in ks}

(***************************************************************************)
(* The connector's operations, as functions of the database.               *)
(***************************************************************************)
\* the loop "for token in tokens: redis_connection.sadd(token, timestamp)"
RECURSIVE AddIndices(_, _, _, _)
AddIndices(d, tokens, member, i) ==
    IF i > Len(tokens) THEN d
    ELSE AddIndices(sadd(d, tokens[i], member), tokens, member, i + 1)

\* the loop "for token in tokens: redis_connection.srem(token, timestamp)"
RECURSIVE RemoveIndices(_, _, _, _)
RemoveIndices(d, tokens, member, i) ==
    IF i > Len(tokens) THEN d
    ELSE RemoveIndices(srem(d, tokens[i], member), tokens, member, i + 1)

add_redis_note(d, timestamp, note) ==
    LET tokens == NoteTokens[timestamp, note]
        indexed == AddIndices(d, tokens, TimestampStr[timestamp], 1)
    IN [db |-> set(indexed, get_note_key(TimestampStr[timestamp]), note), status |-> "ok"]

\* delete_redis_note without the exists check of lines 75-76: get returns
\* None for a missing note and None.decode raises
delete_redis_note_Unguarded(d, timestamp) ==
    IF ~exists(d, get_note_key(TimestampStr[timestamp])) THEN [db |-> d, status |-> "error"]
    ELSE LET line == get(d, get_note_key(TimestampStr[timestamp])).str
             tokens == NoteTokens[timestamp, line]
             unindexed == RemoveIndices(d, tokens, TimestampStr[timestamp], 1)
         IN [db |-> delete(unindexed, get_note_key(TimestampStr[timestamp])), status |-> "ok"]

delete_redis_note(d, timestamp) ==
    IF ~exists(d, get_note_key(TimestampStr[timestamp])) THEN [db |-> d, status |-> "ok"]
    ELSE LET line == get(d, get_note_key(TimestampStr[timestamp])).str
             tokens == NoteTokens[timestamp, line]
             unindexed == RemoveIndices(d, tokens, TimestampStr[timestamp], 1)
         IN [db |-> delete(unindexed, get_note_key(TimestampStr[timestamp])), status |-> "ok"]

save_note(d, timestamp, note) == add_redis_note(d, timestamp, note)

delete_note(d, timestamp) == delete_redis_note(d, timestamp)

update_note(d, original_timestamp, new_timestamp, new_note) ==
    LET deleted == delete_note(d, original_timestamp)
    IN IF deleted.status # "ok" THEN deleted
       ELSE save_note(deleted.db, new_timestamp, new_note)

\* a (timestamp, note) pair of a result; NonePair is the pair (None, None)
Pair(timestamp, note) == [isNone |-> FALSE, ts |-> timestamp, text |-> note]
NonePair == [isNone |-> TRUE, ts |-> 0, text |-> ""]

\* key[len(get_note_key('')):] for every key of keys(get_note_key("*"))
NoteKeyTimestamps(d) ==
    {SubSeq(key, Len(get_note_key("")) + 1, Len(key)) : key \in keys(d, get_note_key(""))}

WordKeys(terms) == {get_word_key(term) : term \in terms}

\* ResolveMembers without lines 136-142: the exclusion terms are dropped when
\* inclusion terms are given
ResolveMembers_IgnoreExclusion(d, inclusion_terms, exclusion_terms) ==
    IF inclusion_terms # {}
    THEN sinter(d, WordKeys(inclusion_terms))
    ELSE IF exclusion_terms # {}
         THEN NoteKeyTimestamps(d) \ sunion(d, WordKeys(exclusion_terms))
         ELSE NoteKeyTimestamps(d)

\* lines 129-156: the members the request resolves to, still as strings
ResolveMembers(d, inclusion_terms, exclusion_terms) ==
    IF inclusion_terms # {}
    THEN LET timestamps == sinter(d, WordKeys(inclusion_terms))
         IN IF exclusion_terms # {}
            THEN timestamps \ sunion(d, WordKeys(exclusion_terms))
            ELSE timestamps
    ELSE IF exclusion_terms # {}
         THEN NoteKeyTimestamps(d) \ sunion(d, WordKeys(exclusion_terms))
         ELSE NoteKeyTimestamps(d)

\* timestamps.sort(), on <<integer, member>> pairs, greatest first
RECURSIVE SortDescending(_)
SortDescending(parsed) ==
    IF parsed = {} THEN <<>>
    ELSE LET most == CHOOSE p \in parsed : \A q \in parsed : p[1] >= q[1]
         IN <<most[1]>> \o SortDescending(parsed \ {most})

\* timestamps.sort(), on <<integer, member>> pairs
RECURSIVE SortAscending(_)
SortAscending(parsed) ==
    IF parsed = {} THEN <<>>
    ELSE LET least == CHOOSE p \in parsed : \A q \in parsed : p[1] <= q[1]
         IN <<least[1]>> \o SortAscending(parsed \ {least})

\* SortedInts with the sort in descending order
SortedInts_Descending(members) == SortDescending({<<StrToInt(m), m>> : m \in members})

\* lines 158-159: [int(timestamp) for timestamp in timestamps], sorted; one
\* entry per member
SortedInts(members) == SortAscending({<<StrToInt(m), m>> : m \in members})

find_redis_notes(d, inclusion_terms, exclusion_terms) ==
    LET timestamps == SortedInts(ResolveMembers(d, inclusion_terms, exclusion_terms))
        notes == mget(d, [i \in 1..Len(timestamps) |-> get_note_key(IntToStr(timestamps[i]))])
    IN IF timestamps = <<>>
       THEN [status |-> "ok", resolved |-> timestamps, value |-> <<NonePair>>]
       ELSE IF \E i \in 1..Len(notes) : notes[i] = None
            \* None.decode('utf-8') raises AttributeError
            THEN [status |-> "error", resolved |-> timestamps, value |-> <<>>]
            ELSE [status |-> "ok", resolved |-> timestamps,
                  value |-> [i \in 1..Len(timestamps) |-> Pair(timestamps[i], notes[i].str)]]

(***************************************************************************)
(* The state machine: db is the Redis database, op the last call made on   *)
(* the connector with its arguments and its outcome.                       *)
(***************************************************************************)
\* no call of get_note_tokens on its own
NoTokens == [ts |-> 0, line |-> "", tokens |-> <<>>, done |-> FALSE]

\* the callers that run calls step by step
Callers == {1, 2}

\* the timestamp a caller writes to when the callers write to different ones
CallerTimestamp == [c \in Callers |-> TimestampPool[c]]

\* the timestamps of the calls that run step by step
StepTimestamps == {CallerTimestamp[c] : c \in Callers}

\* a caller that is not in a call: pc is the store call the caller makes
\* next, tokens and i the loop over the tokens, members the set find has
\* resolved so far, phase and writes the call a crash interrupted
IdleCaller ==
    [pc |-> "idle", kind |-> "none", ts |-> 0, ts2 |-> 0, text |-> "", incl |-> {}, excl |-> {},
     tokens |-> <<>>, i |-> 0, members |-> {}, resolved |-> <<>>, status |-> "ok",
     value |-> <<>>, phase |-> "first", writes |-> 0]

NoCall ==
    [kind |-> "none", ts |-> 0, ts2 |-> 0, text |-> "", hadOld |-> FALSE, old |-> "",
     incl |-> {}, excl |-> {}, status |-> "ok", resolved |-> <<>>, value |-> <<>>]

\* the connector's calls run one at a time, each to its end: no tokenizer
\* call of its own and no caller in the middle of a call
Init ==
    /\ db = <<>>
    /\ op = NoCall
    /\ tok = NoTokens
    /\ calls = [c \in Callers |-> IdleCaller]
    /\ start = <<>>
    /\ scenario = "calls"

SaveNote ==
    \E timestamp \in Timestamps, note \in Texts :
        LET r == save_note(db, timestamp, note)
        IN /\ db' = r.db
           /\ op' = [NoCall EXCEPT !.kind = "save", !.ts = timestamp, !.text = note,
                                   !.status = r.status]
           /\ UNCHANGED <<tok, calls, start, scenario>>

DeleteNote ==
    \E timestamp \in Timestamps :
        LET r == delete_note(db, timestamp)
        IN /\ db' = r.db
           /\ op' = [NoCall EXCEPT !.kind = "delete", !.ts = timestamp,
                                   !.hadOld = exists(db, get_note_key(IntToStr(timestamp))),
                                   !.status = r.status]
           /\ UNCHANGED <<tok, calls, start, scenario>>

UpdateNote ==
    \E original_timestamp \in Timestamps, new_timestamp \in Timestamps, new_note \in Texts :
        LET r == update_note(db, original_timestamp, new_timestamp, new_note)
            had == exists(db, get_note_key(IntToStr(original_timestamp)))
        IN /\ db' = r.db
           /\ op' = [NoCall EXCEPT !.kind = "update", !.ts = original_timestamp,
                                   !.ts2 = new_timestamp, !.text = new_note,
                                   !.hadOld = had,
                                   !.old = get(db, get_note_key(IntToStr(original_timestamp))).str,
                                   !.status = r.status]
           /\ UNCHANGED <<tok, calls, start, scenario>>

Requests ==
    {rq \in (SUBSET Terms) \X (SUBSET Terms) :
        Cardinality(rq[1]) <= MaxInclusion /\ Cardinality(rq[2]) <= MaxExclusion}

FindNotes ==
    \E rq \in Requests :
        LET r == find_redis_notes(db, rq[1], rq[2])
        IN /\ db' = db
           /\ op' = [NoCall EXCEPT !.kind = "find", !.incl = rq[1], !.excl = rq[2],
                                   !.status = r.status, !.resolved = r.resolved,
                                   !.value = r.value]
           /\ UNCHANGED <<tok, calls, start, scenario>>

Next == SaveNote \/ DeleteNote \/ UpdateNote \/ FindNotes

Spec == Init /\ [][Next]_vars

(***************************************************************************)
(* get_note_tokens on its own: a call with arguments drawn from the        *)
(* tokenizer pools, and its return.                                        *)
(***************************************************************************)
InitTokens ==
    /\ db = <<>>
    /\ op = NoCall
    /\ tok \in {[NoTokens EXCEPT !.ts = timestamp, !.line = line] :
                    <<timestamp, line>> \in TokenizerTimestamps \X TokenizerTexts}
    /\ calls = [c \in Callers |-> IdleCaller]
    /\ start = <<>>
    /\ scenario = "tokens"

GetNoteTokens ==
    /\ scenario = "tokens"
    /\ ~tok.done
    /\ tok' = [tok EXCEPT !.tokens = get_note_tokens(tok.ts, tok.line), !.done = TRUE]
    /\ UNCHANGED <<db, op, calls, start, scenario>>

NextTokens == GetNoteTokens

SpecTokens == InitTokens /\ [][NextTokens]_vars

(***************************************************************************)
(* The calls step by step: every call on redis_connection is one step, and *)
(* the steps of the callers interleave.  scenario says which calls run:    *)
(*   "disjoint"  save_note and delete_note, each caller on its own         *)
(*               timestamp;                                                *)
(*   "race"      two update_note calls on one timestamp, new texts differ; *)
(*   "reader"    one find of caller 1 and one save_note or delete_note of  *)
(*               caller 2;                                                 *)
(*   "crash"     one save_note or delete_note of caller 1 that stops after *)
(*               some of its steps, then the same call again or a          *)
(*               delete_note of the same timestamp.                        *)
(***************************************************************************)
Scenarios == {"disjoint", "race", "reader", "crash"}

\* the store after save_note of every (timestamp, text) of notes
RECURSIVE StoreOf(_)
StoreOf(notes) ==
    IF notes = {} THEN <<>>
    ELSE LET n == CHOOSE x \in notes : TRUE
         IN save_note(StoreOf(notes \ {n}), n[1], n[2]).db

\* the stores that hold at most one note per timestamp, each saved once
SavedStores ==
    {StoreOf(notes) : notes \in {ns \in SUBSET (StepTimestamps \X Texts) :
                                    \A x \in ns, y \in ns : x[1] = y[1] => x = y}}

InitSteps ==
    /\ scenario \in Scenarios
    /\ db \in SavedStores
    /\ start = db
    /\ op = NoCall
    /\ tok = NoTokens
    /\ calls = [c \in Callers |-> IdleCaller]

SaveCalls(timestamps) ==
    {[kind |-> "save", ts |-> timestamp, ts2 |-> timestamp, text |-> note, incl |-> {}, excl |-> {}] :
        <<timestamp, note>> \in timestamps \X Texts}

DeleteCalls(timestamps) ==
    {[kind |-> "delete", ts |-> timestamp, ts2 |-> timestamp, text |-> "", incl |-> {}, excl |-> {}] :
        timestamp \in timestamps}

\* update_note(timestamp, timestamp, note) for a note no other caller gives
UpdateCalls(c, timestamp) ==
    {[kind |-> "update", ts |-> timestamp, ts2 |-> timestamp, text |-> note, incl |-> {}, excl |-> {}] :
        note \in {n \in Texts : \A o \in Callers \ {c} : calls[o].kind = "update" => calls[o].text # n}}

FindCalls ==
    {[kind |-> "find", ts |-> 0, ts2 |-> 0, text |-> "", incl |-> rq[1], excl |-> rq[2]] :
        rq \in Requests}

\* the calls caller c can make in the scenario
CallsOf(c) ==
    CASE scenario = "disjoint" ->
             SaveCalls({CallerTimestamp[c]}) \cup DeleteCalls({CallerTimestamp[c]})
      [] scenario = "race" -> UpdateCalls(c, CallerTimestamp[1])
      [] scenario = "reader" ->
             IF c = 1 THEN FindCalls
             ELSE SaveCalls(StepTimestamps) \cup DeleteCalls(StepTimestamps)
      [] scenario = "crash" ->
             IF c = 1 THEN SaveCalls(StepTimestamps) \cup DeleteCalls(StepTimestamps)
             ELSE {}
      [] OTHER -> {}

\* line 58 and the entry of the loop of lines 63-64
StartSave(caller, timestamp, note) ==
    [caller EXCEPT !.pc = "sadd", !.tokens = NoteTokens[timestamp, note], !.i = 1]

\* the first store call of a call
StartCall(caller) ==
    CASE caller.kind = "save" -> StartSave(caller, caller.ts, caller.text)
      [] caller.kind \in {"delete", "update"} -> [caller EXCEPT !.pc = "exists"]
      [] caller.kind = "find" ->
             [caller EXCEPT !.pc = IF caller.incl # {} THEN "sinter" ELSE "keys"]

\* the return of a call, or the exception that ends it
Return(caller, status) ==
    [caller EXCEPT !.pc = "done", !.status = status, !.tokens = <<>>, !.i = 0, !.members = {}]

\* after delete_note: update_note goes on with save_note, line 35
AfterDelete(caller) ==
    IF caller.kind = "update" THEN StartSave(caller, caller.ts2, caller.text)
    ELSE Return(caller, "ok")

\* a store write counts for the call a crash can interrupt
Wrote(caller) ==
    IF caller.phase = "first" THEN [caller EXCEPT !.writes = caller.writes + 1] ELSE caller

BeginCall ==
    \E c \in Callers :
        /\ scenario \in Scenarios
        /\ calls[c].pc = "idle"
        /\ \E call \in CallsOf(c) :
               calls' = [calls EXCEPT ![c] =
                            StartCall([IdleCaller EXCEPT !.kind = call.kind, !.ts = call.ts,
                                                         !.ts2 = call.ts2, !.text = call.text,
                                                         !.incl = call.incl, !.excl = call.excl])]
        /\ UNCHANGED <<db, op, tok, start, scenario>>

\* delete_redis_note without the return of lines 75-76 when there is no note
ExistsStep_Unguarded ==
    \E c \in Callers :
        /\ calls[c].pc = "exists"
        /\ calls' = [calls EXCEPT ![c] = [calls[c] EXCEPT !.pc = "get"]]
        /\ UNCHANGED <<db, op, tok, start, scenario>>

\* line 75: redis_connection.exists(get_note_key(timestamp))
ExistsStep ==
    \E c \in Callers :
        /\ calls[c].pc = "exists"
        /\ calls' = [calls EXCEPT ![c] =
                         IF exists(db, get_note_key(TimestampStr[calls[c].ts]))
                         THEN [calls[c] EXCEPT !.pc = "get"]
                         ELSE AfterDelete(calls[c])]
        /\ UNCHANGED <<db, op, tok, start, scenario>>

\* lines 78-79: redis_connection.get(...).decode, which raises on None, and
\* the tokens of the line
GetStep ==
    \E c \in Callers :
        /\ calls[c].pc = "get"
        /\ LET line == get(db, get_note_key(TimestampStr[calls[c].ts]))
           IN calls' = [calls EXCEPT ![c] =
                            IF line = None THEN Return(calls[c], "error")
                            ELSE [calls[c] EXCEPT !.pc = "srem",
                                                  !.tokens = NoteTokens[calls[c].ts, line.str],
                                                  !.i = 1]]
        /\ UNCHANGED <<db, op, tok, start, scenario>>

\* line 85: redis_connection.srem(token, timestamp), once per token
SremStep ==
    \E c \in Callers :
        /\ calls[c].pc = "srem"
        /\ db' = srem(db, calls[c].tokens[calls[c].i], TimestampStr[calls[c].ts])
        /\ calls' = [calls EXCEPT ![c] =
                         Wrote([calls[c] EXCEPT !.i = calls[c].i + 1,
                                                !.pc = IF calls[c].i = Len(calls[c].tokens)
                                                       THEN "delete" ELSE "srem"])]
        /\ UNCHANGED <<op, tok, start, scenario>>

\* line 89: redis_connection.delete(get_note_key(timestamp))
DeleteStep ==
    \E c \in Callers :
        /\ calls[c].pc = "delete"
        /\ db' = delete(db, get_note_key(TimestampStr[calls[c].ts]))
        /\ calls' = [calls EXCEPT ![c] = AfterDelete(Wrote(calls[c]))]
        /\ UNCHANGED <<op, tok, start, scenario>>

\* line 64: redis_connection.sadd(token, timestamp), once per token
SaddStep ==
    \E c \in Callers :
        /\ calls[c].pc = "sadd"
        /\ db' = sadd(db, calls[c].tokens[calls[c].i], TimestampStr[calls[c].ts2])
        /\ calls' = [calls EXCEPT ![c] =
                         Wrote([calls[c] EXCEPT !.i = calls[c].i + 1,
                                                !.pc = IF calls[c].i = Len(calls[c].tokens)
                                                       THEN "set" ELSE "sadd"])]
        /\ UNCHANGED <<op, tok, start, scenario>>

\* line 68: redis_connection.set(get_note_key(timestamp), note)
SetStep ==
    \E c \in Callers :
        /\ calls[c].pc = "set"
        /\ db' = set(db, get_note_key(TimestampStr[calls[c].ts2]), calls[c].text)
        /\ calls' = [calls EXCEPT ![c] = Return(Wrote(calls[c]), "ok")]
        /\ UNCHANGED <<op, tok, start, scenario>>

\* lines 158-162: the members as sorted integers, and the return of the
\* pair (None, None) when there is none
Resolved(caller, members) ==
    LET timestamps == SortedInts(members)
    IN IF timestamps = <<>>
       THEN [Return(caller, "ok") EXCEPT !.resolved = timestamps, !.value = <<NonePair>>]
       ELSE [caller EXCEPT !.pc = "mget", !.resolved = timestamps, !.members = {}]

\* after the first store call of find: the sunion of lines 137 and 148
\* when there are exclusion terms
Included(caller, members) ==
    IF caller.excl # {} THEN [caller EXCEPT !.pc = "sunion", !.members = members]
    ELSE Resolved(caller, members)

\* lines 132-135: redis_connection.sinter
SinterStep ==
    \E c \in Callers :
        /\ calls[c].pc = "sinter"
        /\ calls' = [calls EXCEPT ![c] = Included(calls[c], sinter(db, WordKeys(calls[c].incl)))]
        /\ UNCHANGED <<db, op, tok, start, scenario>>

\* lines 144-147 and 155-156: redis_connection.keys(get_note_key("*"))
KeysStep ==
    \E c \in Callers :
        /\ calls[c].pc = "keys"
        /\ calls' = [calls EXCEPT ![c] = Included(calls[c], NoteKeyTimestamps(db))]
        /\ UNCHANGED <<db, op, tok, start, scenario>>

\* lines 136-142 and 148-153: redis_connection.sunion and the difference
SunionStep ==
    \E c \in Callers :
        /\ calls[c].pc = "sunion"
        /\ calls' = [calls EXCEPT ![c] =
                         Resolved(calls[c],
                                  calls[c].members \ sunion(db, WordKeys(calls[c].excl)))]
        /\ UNCHANGED <<db, op, tok, start, scenario>>

\* lines 164-166: redis_connection.mget, the decode that raises on None, and
\* the zip
MgetStep ==
    \E c \in Callers :
        /\ calls[c].pc = "mget"
        /\ LET timestamps == calls[c].resolved
               notes == mget(db, [i \in 1..Len(timestamps) |->
                                     get_note_key(IntToStr(timestamps[i]))])
           IN calls' = [calls EXCEPT ![c] =
                            IF \E i \in 1..Len(notes) : notes[i] = None
                            THEN Return(calls[c], "error")
                            ELSE [Return(calls[c], "ok") EXCEPT
                                      !.value = [i \in 1..Len(timestamps) |->
                                                    Pair(timestamps[i], notes[i].str)]]]
        /\ UNCHANGED <<db, op, tok, start, scenario>>

\* the process stops between two store calls of a write, or after the last
\* one: what it wrote stays (no rollback)
Crash ==
    \E c \in Callers :
        /\ scenario = "crash"
        /\ calls[c].phase = "first"
        /\ calls[c].pc \notin {"idle", "crashed"}
        /\ calls' = [calls EXCEPT ![c] = [calls[c] EXCEPT !.pc = "crashed", !.tokens = <<>>,
                                                           !.i = 0, !.status = "ok"]]
        /\ UNCHANGED <<db, op, tok, start, scenario>>

\* the call a crash interrupted is made again, from its first line
ReissueCall ==
    \E c \in Callers :
        /\ calls[c].pc = "crashed"
        /\ calls' = [calls EXCEPT ![c] = StartCall([calls[c] EXCEPT !.phase = "retry"])]
        /\ UNCHANGED <<db, op, tok, start, scenario>>

\* delete_note of the timestamp of a save_note that a crash interrupted
DeleteAfterCrash ==
    \E c \in Callers :
        /\ calls[c].pc = "crashed"
        /\ calls[c].kind = "save"
        /\ calls' = [calls EXCEPT ![c] = [calls[c] EXCEPT !.phase = "cleanup", !.kind = "delete",
                                                           !.pc = "exists"]]
        /\ UNCHANGED <<db, op, tok, start, scenario>>

NextSteps ==
    \/ BeginCall
    \/ ExistsStep
    \/ GetStep
    \/ SremStep
    \/ DeleteStep
    \/ SaddStep
    \/ SetStep
    \/ SinterStep
    \/ KeysStep
    \/ SunionStep
    \/ MgetStep
    \/ Crash
    \/ ReissueCall
    \/ DeleteAfterCrash

SpecSteps == InitSteps /\ [][NextSteps]_vars

(***************************************************************************)
(* The store as the properties speak of it.                                *)
(***************************************************************************)
\* a note value is stored at timestamp
NoteAt(d, timestamp) == exists(d, get_note_key(IntToStr(timestamp)))

\* the text stored at timestamp
TextAt(d, timestamp) == get(d, get_note_key(IntToStr(timestamp))).str

\* timestamp is a member of the postings set of token
InPostings(d, token, timestamp) == IntToStr(timestamp) \in smembers(d, token)

\* the tokens of a note
TokensOf(timestamp, line) == Range(get_note_tokens(timestamp, line))

\* every token the model can index, and every key that holds a set
TokenUniverse(d) ==
    UNION {TokensOf(ts, line) : <<ts, line>> \in Timestamps \X Texts}
        \cup {k \in DOMAIN d : d[k].kind = "set"}

\* the timestamps of the pairs of a result
ResultTimestamps(value) == {value[i].ts : i \in {j \in 1..Len(value) : ~value[j].isNone}}

(***************************************************************************)
(* C1: after any sequence of completed save_note, delete_note and          *)
(* update_note calls, for every token t and every timestamp ts, ts is in   *)
(* the postings set of t if and only if a note is stored at ts and the     *)
(* tokens of (ts, its stored text) include t.                              *)
(***************************************************************************)
C1_IndexValueConsistency ==
    \A t \in TokenUniverse(db), ts \in Timestamps :
        InPostings(db, t, ts) <=> (NoteAt(db, ts) /\ t \in TokensOf(ts, TextAt(db, ts)))

(***************************************************************************)
(* C2: save_note(ts, text) followed immediately by a find whose only       *)
(* inclusion term is a word or tag token w of text, with no exclusion      *)
(* terms, completes and returns a sequence that contains (ts, text).       *)
(***************************************************************************)
C2_SaveFindRoundTrip ==
    [][(/\ op.kind = "save"
        /\ op'.kind = "find"
        /\ op'.excl = {}
        /\ \E w \in Terms : op'.incl = {w} /\ get_word_key(w) \in Range(TextTokens(op.text)))
       => (/\ op'.status = "ok"
           /\ \E i \in 1..Len(op'.value) : op'.value[i] = Pair(op.ts, op.text))]_vars

(***************************************************************************)
(* C3: a find whose resolved timestamp set is empty returns the empty      *)
(* sequence, never a placeholder pair.                                     *)
(***************************************************************************)
C3_EmptyResultIsEmptySequence ==
    (op.kind = "find" /\ op.resolved = <<>>) => (op.status = "ok" /\ op.value = <<>>)

(***************************************************************************)
(* C4: every pair (ts, text) that a find with inclusion terms returns is   *)
(* a currently stored note whose tokens include the key of every           *)
(* inclusion term.  The formula leaves the placeholder pair of an empty    *)
(* result aside: it speaks of the pairs that carry a timestamp.            *)
(***************************************************************************)
C4_InclusionSoundness ==
    (op.kind = "find" /\ op.incl # {}) =>
        \A i \in 1..Len(op.value) :
            ~op.value[i].isNone =>
                /\ NoteAt(db, op.value[i].ts)
                /\ TextAt(db, op.value[i].ts) = op.value[i].text
                /\ \A term \in op.incl :
                       get_word_key(term) \in TokensOf(op.value[i].ts, op.value[i].text)

TermPostings(d, term) == {ts \in Timestamps : InPostings(d, get_word_key(term), ts)}

\* the timestamps that have a note value
StoredTimestamps(d) == {ts \in Timestamps : NoteAt(d, ts)}

\* what a request is to resolve to, timestamp by timestamp
ReferenceTimestamps(d, inclusion_terms, exclusion_terms) ==
    LET included == IF inclusion_terms = {} THEN StoredTimestamps(d)
                    ELSE {ts \in Timestamps : \A term \in inclusion_terms : ts \in TermPostings(d, term)}
        excluded == {ts \in Timestamps : \E term \in exclusion_terms : ts \in TermPostings(d, term)}
    IN included \ excluded

(***************************************************************************)
(* C6: the set of timestamps a find resolves is the reference value: the   *)
(* timestamps in the postings of every inclusion term, less those in the   *)
(* postings of some exclusion term; with no inclusion term, the            *)
(* timestamps that have a note value, less those in the postings of some   *)
(* exclusion term.                                                         *)
(***************************************************************************)
C6_SearchSetAlgebra ==
    op.kind = "find" =>
        /\ Range(op.resolved) = ReferenceTimestamps(db, op.incl, op.excl)
        /\ Len(op.resolved) = Cardinality(Range(op.resolved))

\* a find with inclusion and exclusion terms resolved a timestamp while the
\* exclusion took another one out of the intersection
C6_Witness ==
    /\ op.kind = "find"
    /\ op.incl # {}
    /\ op.excl # {}
    /\ op.resolved # <<>>
    /\ \E ts \in Timestamps :
           /\ ts \notin Range(op.resolved)
           /\ \A term \in op.incl : ts \in TermPostings(db, term)

\* the tokens of the note an update replaced that its new note does not have
OldOnlyTokens(call) == TokensOf(call.ts, call.old) \ TokensOf(call.ts2, call.text)

(***************************************************************************)
(* C7: after update_note(ts1, ts2, newText) where a note was stored at     *)
(* ts1, ts1 is in none of the postings sets of the old text's tokens       *)
(* (other than those the save of (ts2, newText) installs when ts2 = ts1),  *)
(* ts2 is in the postings set of every token of (ts2, newText), and a      *)
(* find that follows with one inclusion term, a token of the old text      *)
(* that is not a token of newText, does not return ts2.                    *)
(***************************************************************************)
C7_UpdateSemantics ==
    [][/\ (op'.kind = "update" /\ op'.hadOld) =>
              /\ \A t \in TokensOf(op'.ts, op'.old) :
                     InPostings(db', t, op'.ts) =>
                         (op'.ts = op'.ts2 /\ t \in TokensOf(op'.ts2, op'.text))
              /\ \A t \in TokensOf(op'.ts2, op'.text) : InPostings(db', t, op'.ts2)
       /\ (/\ op.kind = "update"
           /\ op.hadOld
           /\ op'.kind = "find"
           /\ op'.excl = {}
           /\ \E w \in Terms : op'.incl = {w} /\ get_word_key(w) \in OldOnlyTokens(op)) =>
              (op'.status = "ok" /\ op.ts2 \notin ResultTimestamps(op'.value))]_vars

(***************************************************************************)
(* C8: delete_note(ts) when no value is stored at ts raises no error and   *)
(* leaves every postings set and every note value unchanged; and a         *)
(* delete_note(ts) that follows a delete_note(ts) leaves the store as the  *)
(* first one left it.                                                      *)
(***************************************************************************)
C8_DeleteMissingIsNoOp ==
    [][/\ (op'.kind = "delete" /\ ~NoteAt(db, op'.ts)) => (db' = db /\ op'.status = "ok")
       /\ (op.kind = "delete" /\ op'.kind = "delete" /\ op'.ts = op.ts) =>
              (db' = db /\ op'.status = "ok")]_vars

\* a delete found no note at its timestamp, in a store that still holds
\* postings of that timestamp and a note at another one
C8_Witness ==
    /\ op.kind = "delete"
    /\ ~op.hadOld
    /\ op.status = "ok"
    /\ \E t \in DOMAIN db : InPostings(db, t, op.ts)
    /\ \E ts \in Timestamps : NoteAt(db, ts)

\* the note key of the timestamp of a pair, and the value the pair gives it
PairKey(pair) == get_note_key(IF pair.isNone THEN "None" ELSE IntToStr(pair.ts))

PairValue(pair) == IF pair.isNone THEN None ELSE StringValue(pair.text)

(***************************************************************************)
(* C9: every non-empty find result is strictly ascending by integer        *)
(* timestamp, so that no timestamp is repeated, and the text paired with   *)
(* each timestamp is the value currently stored under the note key of      *)
(* that timestamp.  For the pair (None, None) the note key is              *)
(* "note_None", and the value stored there is compared with None.          *)
(***************************************************************************)
C9_ResultOrderingAndPairing ==
    (op.kind = "find" /\ op.value # <<>>) =>
        /\ \A i \in 1..(Len(op.value) - 1) :
               /\ ~op.value[i].isNone
               /\ ~op.value[i + 1].isNone
               /\ op.value[i].ts < op.value[i + 1].ts
        /\ \A i \in 1..Len(op.value) : get(db, PairKey(op.value[i])) = PairValue(op.value[i])

\* a find returned two notes whose timestamps spell in the other order than
\* they count
C9_Witness ==
    /\ op.kind = "find"
    /\ Len(op.value) >= 2
    /\ \E i \in 1..(Len(op.value) - 1) :
           /\ op.value[i].ts < op.value[i + 1].ts
           /\ Len(IntToStr(op.value[i].ts)) < Len(IntToStr(op.value[i + 1].ts))
           /\ StrToInt(CharAt(IntToStr(op.value[i].ts), 1))
                  > StrToInt(CharAt(IntToStr(op.value[i + 1].ts), 1))

\* the search terms of the UTC date of a timestamp
TemporalTerms(timestamp) ==
    LET utc == gmtime(timestamp)
    IN {"year_" \o IntToStr(utc.tm_year), "month_" \o IntToStr(utc.tm_mon),
        "day_" \o IntToStr(utc.tm_mday), "hour_" \o IntToStr(utc.tm_hour),
        "weekday_" \o IntToStr(utc.tm_wday)}

(***************************************************************************)
(* C10: after save_note(ts, text), ts is a member of the sets under the    *)
(* keys w_year_<YYYY>, w_month_<M>, w_day_<D>, w_hour_<H> and              *)
(* w_weekday_<W> of the UTC date of ts: the keys find looks up for the     *)
(* inclusion terms year_<YYYY>, month_<M>, day_<D>, hour_<H> and           *)
(* weekday_<W>.                                                            *)
(***************************************************************************)
C10_TemporalPostingsInWordNamespace ==
    op.kind = "save" =>
        \A term \in TemporalTerms(op.ts) : InPostings(db, get_word_key(term), op.ts)

(***************************************************************************)
(* The UTC calendar by counting: whole years from 1970, then whole months, *)
(* and the weekday of a date by Zeller's congruence.                       *)
(***************************************************************************)
RefIsLeap(year) == (year % 4 = 0 /\ year % 100 # 0) \/ year % 400 = 0

RefDaysInYear(year) == IF RefIsLeap(year) THEN 366 ELSE 365

RefDaysInMonth(year, month) ==
    IF month = 2 THEN (IF RefIsLeap(year) THEN 29 ELSE 28)
    ELSE IF month \in {4, 6, 9, 11} THEN 30 ELSE 31

RECURSIVE RefYear(_, _)
RefYear(days, year) ==
    IF days < RefDaysInYear(year) THEN [year |-> year, rest |-> days]
    ELSE RefYear(days - RefDaysInYear(year), year + 1)

RECURSIVE RefMonth(_, _, _)
RefMonth(days, year, month) ==
    IF days < RefDaysInMonth(year, month) THEN [month |-> month, day |-> days + 1]
    ELSE RefMonth(days - RefDaysInMonth(year, month), year, month + 1)

\* Monday is 0
RefWeekday(year, month, day) ==
    LET m == IF month < 3 THEN month + 12 ELSE month
        y == IF month < 3 THEN year - 1 ELSE year
        h == (day + (13 * (m + 1)) \div 5 + (y % 100) + (y % 100) \div 4
                  + (y \div 100) \div 4 + 5 * (y \div 100)) % 7
    IN (h + 5) % 7

RefUTC(timestamp) ==
    LET days == timestamp \div 86400
        y == RefYear(days, 1970)
        m == RefMonth(y.rest, y.year, 1)
    IN [year |-> y.year, month |-> m.month, day |-> m.day,
        hour |-> (timestamp - days * 86400) \div 3600,
        weekday |-> RefWeekday(y.year, m.month, m.day)]

TemporalPrefixes == <<"year_", "month_", "day_", "hour_", "weekday_">>

\* token is prefix followed by the decimal spelling of value
IsTemporalToken(token, prefix, value) ==
    /\ StartsWith(token, prefix)
    /\ Len(token) > Len(prefix)
    /\ StrToInt(SubSeq(token, Len(prefix) + 1, Len(token))) = value

(***************************************************************************)
(* C11: for every timestamp and every text, the token sequence ends with   *)
(* the five temporal tokens, in the order year, month (1-12), day (1-31),  *)
(* hour (0-23), weekday (0-6, Monday 0), whose numbers are the UTC         *)
(* calendar fields of the timestamp; no token before them has the form of  *)
(* a temporal token; for the empty text there are those five tokens and    *)
(* nothing else.                                                           *)
(***************************************************************************)
C11_TemporalTokenization ==
    tok.done =>
        LET n == Len(tok.tokens)
            utc == RefUTC(tok.ts)
        IN /\ n >= 5
           /\ IsTemporalToken(tok.tokens[n - 4], "year_", utc.year)
           /\ IsTemporalToken(tok.tokens[n - 3], "month_", utc.month)
           /\ IsTemporalToken(tok.tokens[n - 2], "day_", utc.day)
           /\ IsTemporalToken(tok.tokens[n - 1], "hour_", utc.hour)
           /\ IsTemporalToken(tok.tokens[n], "weekday_", utc.weekday)
           /\ utc.month \in 1..12
           /\ utc.day \in 1..31
           /\ utc.hour \in 0..23
           /\ utc.weekday \in 0..6
           /\ \A i \in 1..(n - 5), k \in 1..5 : ~StartsWith(tok.tokens[i], TemporalPrefixes[k])
           /\ tok.line = "" => n = 5

\* the empty text at 2000-02-29 00:00:00 UTC, a Tuesday, gave the five
\* tokens of that instant
C11_Witness ==
    /\ tok.done
    /\ tok.ts = 951782400
    /\ tok.line = ""
    /\ tok.tokens = <<"year_2000", "month_2", "day_29", "hour_0", "weekday_1">>

\* the keys of the parts of a text that a pattern found
PartKeys(parts) == [i \in 1..Len(parts) |-> "w_" \o Lower(parts[i])]

\* the entries of a sequence that no earlier entry equals, in their order
FirstOccurrences(s) ==
    LET firsts == {i \in 1..Len(s) : \A j \in 1..(i - 1) : s[j] # s[i]}
        nth(k) == CHOOSE i \in firsts : Cardinality({j \in firsts : j <= i}) = k
    IN [k \in 1..Cardinality(firsts) |-> s[nth(k)]]

(***************************************************************************)
(* C15: for every timestamp and every text, the sequence get_note_tokens   *)
(* returns holds no token twice, and it is the word tokens in the order of *)
(* their first occurrences, then the tag tokens in the order of their      *)
(* first occurrences, then the five temporal tokens.                       *)
(***************************************************************************)
C15_TokensDuplicateFree ==
    tok.done =>
        LET words == FirstOccurrences(PartKeys(FindWords(tok.line, 1)))
            tags == FirstOccurrences(PartKeys(FindTags(tok.line, 1)))
            n == Len(tok.tokens)
        IN /\ \A i \in 1..n, j \in 1..n : i # j => tok.tokens[i] # tok.tokens[j]
           /\ n = Len(words) + Len(tags) + 5
           /\ SubSeq(tok.tokens, 1, Len(words)) = words
           /\ SubSeq(tok.tokens, Len(words) + 1, Len(words) + Len(tags)) = tags
           /\ \A k \in 1..5 : StartsWith(tok.tokens[Len(words) + Len(tags) + k], TemporalPrefixes[k])

\* a text with the word a three times (once inside a tag), the tag #a, and
\* the word year_2017 at a timestamp of the year 2017
C15_Witness ==
    /\ tok.done
    /\ tok.ts = 1500000000
    /\ tok.line = "year_2017 a #a A"
    /\ tok.tokens = <<"w_year_2017", "w_a", "w_#a",
                      "year_2017", "month_7", "day_14", "hour_2", "weekday_4">>

(***************************************************************************)
(* C14: in any state reachable by completed save, delete and update calls  *)
(* in which no note is stored at ts, save_note(ts, text) followed by       *)
(* delete_note(ts) restores the store as it was before the save: every     *)
(* postings set has the members it had and no value is stored at ts.  The  *)
(* formula is about the step of the save: the delete_note that the next    *)
(* step can make from the store the save left raises no error and gives    *)
(* back the store the save started from.                                   *)
(***************************************************************************)
C14_DeleteUndoesSave ==
    [][(op'.kind = "save" /\ ~NoteAt(db, op'.ts)) =>
           LET undone == delete_note(db', op'.ts)
           IN /\ undone.status = "ok"
              /\ ~NoteAt(undone.db, op'.ts)
              /\ undone.db = db]_vars

(***************************************************************************)
(* C16: after any sequence of completed save, delete and update calls,     *)
(* every timestamp a find resolves has a stored note value, and the find   *)
(* completes without error.                                                *)
(***************************************************************************)
C16_FindResolvesStoredNotes ==
    op.kind = "find" =>
        /\ \A i \in 1..Len(op.resolved) : NoteAt(db, op.resolved[i])
        /\ op.status = "ok"

\* the note value and the memberships of timestamp are in d2 as in d1
SameAt(d1, d2, timestamp) ==
    LET member == TimestampStr[timestamp]
    IN /\ get(d1, get_note_key(member)) = get(d2, get_note_key(member))
       /\ \A key \in DOMAIN d1 \cup DOMAIN d2 :
              member \in smembers(d1, key) <=> member \in smembers(d2, key)

(***************************************************************************)
(* C20: save_note(ts, text) and delete_note(ts) leave unchanged, for every *)
(* other timestamp, its note value and its membership in every postings    *)
(* set; update_note(ts1, ts2, text) leaves unchanged the values and the    *)
(* memberships of every timestamp other than ts1 and ts2.                  *)
(***************************************************************************)
C20_OtherTimestampsUntouched ==
    [][/\ op'.kind \in {"save", "delete"} =>
              \A ts \in Timestamps \ {op'.ts} : SameAt(db, db', ts)
       /\ op'.kind = "update" =>
              \A ts \in Timestamps \ {op'.ts, op'.ts2} : SameAt(db, db', ts)]_vars

\* an update replaced a note in place while another timestamp holds a note
\* with a token of the replaced text, and is still in its postings set
C20_Witness ==
    /\ op.kind = "update"
    /\ op.hadOld
    /\ op.ts = op.ts2
    /\ \E ts \in Timestamps \ {op.ts} :
           /\ NoteAt(db, ts)
           /\ \E t \in TokensOf(op.ts, op.old) :
                  /\ t \in TokensOf(ts, TextAt(db, ts))
                  /\ InPostings(db, t, ts)

(***************************************************************************)
(* The step-by-step runs as the properties speak of them.                  *)
(***************************************************************************)
\* every caller has made its call, and the call has returned or raised
AllDone == \A c \in Callers : calls[c].pc = "done"

\* the postings/value invariant of C1 on a store
Consistent(d) ==
    \A t \in TokenUniverse(d), ts \in Timestamps :
        InPostings(d, t, ts) <=> (NoteAt(d, ts) /\ t \in TokensOf(ts, TextAt(d, ts)))

\* the store after the whole call of a caller, run on its own from d
Apply(d, caller) ==
    CASE caller.kind = "save" -> save_note(d, caller.ts, caller.text).db
      [] caller.kind = "delete" -> delete_note(d, caller.ts).db
      [] caller.kind = "update" -> update_note(d, caller.ts, caller.ts2, caller.text).db

(***************************************************************************)
(* C12: starting from a store that satisfies the postings/value invariant, *)
(* for every interleaving of the store steps of a save_note or delete_note *)
(* call of each caller, the callers on different timestamps, once both     *)
(* calls have completed the invariant holds and the store is the one that  *)
(* running the two calls one after the other produces, in either order.    *)
(***************************************************************************)
C12_DisjointCallsAreSafe ==
    (scenario = "disjoint" /\ AllDone) =>
        /\ \A c \in Callers : calls[c].status = "ok"
        /\ Consistent(db)
        /\ db = Apply(Apply(start, calls[1]), calls[2])
        /\ db = Apply(Apply(start, calls[2]), calls[1])

\* the timestamp both update_note calls of the race are on
RaceTimestamp == CallerTimestamp[1]

\* both update_note calls are through their delete_note and neither has
\* made a store call of its save_note yet
ReadyToSave ==
    /\ scenario = "race"
    /\ \A c \in Callers : calls[c].pc = "sadd" /\ calls[c].i = 1

\* some timestamp is in the postings set of a token that the note stored at
\* that timestamp does not tokenize to
ForeignPosting(d) ==
    \E ts \in Timestamps, t \in TokenUniverse(d) :
        /\ InPostings(d, t, ts)
        /\ NoteAt(d, ts)
        /\ t \notin TokensOf(ts, TextAt(d, ts))

(***************************************************************************)
(* C13: there is an interleaving of the store steps of two concurrent      *)
(* update_note calls on the same timestamp, with different new texts,      *)
(* after which, with both calls completed, some timestamp is in the        *)
(* postings set of a token that the note stored at that timestamp does not *)
(* tokenize to.  The interleavings the formula is about are those in which *)
(* both calls finish their delete_note before either starts the store      *)
(* calls of its save_note: once both calls have then completed, neither    *)
(* has raised, the stored text is one of the two new texts, the timestamp  *)
(* is in the postings sets of the tokens of both new texts and of no       *)
(* others, and when one new text has a token the stored text does not have *)
(* the index is corrupt as the claim says.                                 *)
(***************************************************************************)
C13_RacingUpdatesCorruptIndex ==
    [](ReadyToSave =>
         [](AllDone =>
              LET texts == {calls[c].text : c \in Callers}
                  tokens == UNION {TokensOf(RaceTimestamp, line) : line \in texts}
              IN /\ \A c \in Callers : calls[c].status = "ok"
                 /\ NoteAt(db, RaceTimestamp)
                 /\ TextAt(db, RaceTimestamp) \in texts
                 /\ \A t \in TokenUniverse(db) : InPostings(db, t, RaceTimestamp) <=> t \in tokens
                 /\ tokens # TokensOf(RaceTimestamp, TextAt(db, RaceTimestamp))
                        => ForeignPosting(db)))

\* two update_note calls on a timestamp that held a note have completed
\* without raising, and the timestamp is in the postings set of a token of
\* the new text that was overwritten, which the stored text does not have
C13_Witness ==
    /\ scenario = "race"
    /\ AllDone
    /\ \A c \in Callers : calls[c].status = "ok"
    /\ NoteAt(start, RaceTimestamp)
    /\ \E c \in Callers :
           \E t \in TokensOf(RaceTimestamp, calls[c].text) :
               /\ InPostings(db, t, RaceTimestamp)
               /\ t \notin TokensOf(RaceTimestamp, TextAt(db, RaceTimestamp))
    /\ ForeignPosting(db)

(***************************************************************************)
(* C17: for every interleaving of the store steps of one find with one     *)
(* concurrent save_note or delete_note, every timestamp the find resolved  *)
(* has a stored value at the moment of the multi-get, and the find         *)
(* completes without failing on a missing value.                           *)
(***************************************************************************)
C17_FindSafeAgainstWriter ==
    scenario = "reader" =>
        /\ calls[1].pc = "mget" =>
               \A i \in 1..Len(calls[1].resolved) : NoteAt(db, calls[1].resolved[i])
        /\ calls[1].pc = "done" => calls[1].status = "ok"

\* the call of caller 1 that a crash interrupted has been made again and
\* has completed
Retried ==
    /\ scenario = "crash"
    /\ calls[1].phase = "retry"
    /\ calls[1].pc = "done"

(***************************************************************************)
(* C18: from a store that satisfies the postings/value invariant, if       *)
(* save_note(ts, text) on a timestamp with no note, or delete_note(ts) on  *)
(* a timestamp with a note, stops after any number of its store writes and *)
(* the same call is made again and completes, the call raises no error and *)
(* the store is the one an uninterrupted run of the call produces.         *)
(***************************************************************************)
C18_RetryCompletesInterruptedCall ==
    (/\ Retried
     /\ \/ calls[1].kind = "save" /\ ~NoteAt(start, calls[1].ts)
        \/ calls[1].kind = "delete" /\ NoteAt(start, calls[1].ts))
        => (calls[1].status = "ok" /\ db = Apply(start, calls[1]))

\* a delete_note stopped after some of its srem calls, before the note value
\* was deleted, while the other timestamp holds a note; the retry completed
C18_Witness ==
    /\ Retried
    /\ calls[1].kind = "delete"
    /\ NoteAt(start, calls[1].ts)
    /\ calls[1].writes >= 1
    /\ calls[1].writes < Len(get_note_tokens(calls[1].ts, TextAt(start, calls[1].ts)))
    /\ \E ts \in StepTimestamps \ {calls[1].ts} : NoteAt(db, ts)
    /\ ~NoteAt(db, calls[1].ts)

\* a save_note of caller 1 on a timestamp with no note stopped after some or
\* all of its sadd calls and before the set, and a delete_note of the same
\* timestamp has completed
CleanedUp ==
    /\ scenario = "crash"
    /\ calls[1].phase = "cleanup"
    /\ calls[1].pc = "done"
    /\ ~NoteAt(start, calls[1].ts)
    /\ calls[1].writes >= 1
    /\ calls[1].writes <= Len(get_note_tokens(calls[1].ts, calls[1].text))

\* the tokens the interrupted save_note of caller 1 had added
AddedTokens ==
    {get_note_tokens(calls[1].ts, calls[1].text)[j] : j \in 1..calls[1].writes}

(***************************************************************************)
(* C19 as the claim states it: if save_note(ts, text) on a timestamp with  *)
(* no note stops after adding some or all of its postings and before       *)
(* writing the note value, a delete_note(ts) that then completes leaves ts *)
(* in no postings set.                                                     *)
(***************************************************************************)
C19_DeleteCleansInterruptedSave ==
    CleanedUp => \A t \in TokenUniverse(db) : ~InPostings(db, t, calls[1].ts)

(***************************************************************************)
(* C19, amended: if save_note(ts, text) on a timestamp with no note stops  *)
(* after adding some or all of its postings and before writing the note    *)
(* value, a delete_note(ts) that then completes raises no error and        *)
(* changes nothing: no value is stored at ts, ts is in the postings sets   *)
(* of exactly the tokens the interrupted save had added, and the values    *)
(* and memberships of the other timestamps are as before the save.         *)
(***************************************************************************)
C19_DeleteLeavesInterruptedSave ==
    CleanedUp =>
        /\ calls[1].status = "ok"
        /\ ~NoteAt(db, calls[1].ts)
        /\ \A t \in TokenUniverse(db) \cup AddedTokens :
               InPostings(db, t, calls[1].ts) <=> t \in AddedTokens
        /\ \A ts \in Timestamps \ {calls[1].ts} : SameAt(start, db, ts)

\* the save_note had added all its postings, one of them to a set that
\* holds the other timestamp too, and after the delete_note the timestamp
\* is still in that set
C19_Witness ==
    /\ CleanedUp
    /\ calls[1].writes = Len(get_note_tokens(calls[1].ts, calls[1].text))
    /\ \E t \in AddedTokens, ts \in StepTimestamps \ {calls[1].ts} :
           /\ InPostings(db, t, calls[1].ts)
           /\ InPostings(db, t, ts)

====
